---- MODULE Spec2Model ----
(***************************************************************************)
(* A model of the dense linear-algebra library: Matrix<T> (matrix.hpp),    *)
(* Vector<T> (vector.hpp) and linalg::solve_linear_system (linalg.hpp).    *)
(*                                                                         *)
(* The element type T is modelled by exact rational numbers, a rational    *)
(* being a pair <<n, d>> in lowest terms with d > 0.  The pair <<0, 0>>    *)
(* stands for the non-finite value a division by zero produces.            *)
(* Indices are zero-based as in the source; the storage of a matrix is a   *)
(* row-major sequence, so entry (i, j) is data[i * cols + j + 1].          *)
(*                                                                         *)
(* The algorithms are operators on matrix values [rows, cols, data].  The  *)
(* objects of a program are kept in mats and vecs: an object holds rows,   *)
(* cols and ptr, the address in heap of the array its unique_ptr owns      *)
(* (0 is the null pointer).  last records the operation just performed.    *)
(***************************************************************************)
EXTENDS Integers, Sequences, FiniteSets, TLC

VARIABLES mats, vecs, heap, last

vars == <<mats, vecs, heap, last>>

(***************************************************************************)
(* Bounds of the model.                                                    *)
(***************************************************************************)
\* largest number of elements (rows * cols) of a matrix drawn as an input
MaxCells == 6
\* largest dimension passed to a constructor in the object life-cycle model
MaxDim == 2
\* largest number of Matrix objects the life-cycle model declares
MaxObjects == 2
\* largest order n of a drawn n x n linear system
MaxOrder == 2
\* order of the drawn square matrices with elements 0 and 1
MaxBinaryOrder == 3
\* largest size of a drawn vector
MaxVecSize == 3
\* number of binary digits std::sqrt keeps after the point
SqrtBits == 3

(***************************************************************************)
(* The element type T: exact rationals.                                    *)
(***************************************************************************)
Abs(n) == IF n < 0 THEN -n ELSE n

RECURSIVE Gcd(_, _)
Gcd(a, b) == IF b = 0 THEN a ELSE Gcd(b, a % b)

NaN == <<0, 0>>

IsNaN(q) == q[2] = 0

\* the rational n/d in lowest terms, d > 0
Frac(n, d) ==
    IF d = 0 THEN NaN
    ELSE LET g == Gcd(Abs(n), Abs(d))
             s == IF d < 0 THEN -1 ELSE 1
         IN  <<(s * n) \div g, (s * d) \div g>>

Q(n) == <<n, 1>>

\* T(): the value-initialised element
Zero == Q(0)

One == Q(1)

RAdd(p, q) == IF IsNaN(p) \/ IsNaN(q) THEN NaN
              ELSE Frac(p[1] * q[2] + q[1] * p[2], p[2] * q[2])

RSub(p, q) == IF IsNaN(p) \/ IsNaN(q) THEN NaN
              ELSE Frac(p[1] * q[2] - q[1] * p[2], p[2] * q[2])

RMul(p, q) == IF IsNaN(p) \/ IsNaN(q) THEN NaN
              ELSE Frac(p[1] * q[1], p[2] * q[2])

RDiv(p, q) == IF IsNaN(p) \/ IsNaN(q) THEN NaN
              ELSE Frac(p[1] * q[2], p[2] * q[1])

RLeq(p, q) == p[1] * q[2] <= q[1] * p[2]

(***************************************************************************)
(* Error kinds: the exception types the source throws.                     *)
(***************************************************************************)
NoError == [type |-> "none", what |-> ""]

\* throw std::invalid_argument("Matrix dimensions must be positive")
InvalidDimensions ==
    [type |-> "invalid_argument", what |-> "Matrix dimensions must be positive"]

\* throw std::out_of_range("Matrix index out of bounds")
IndexOutOfBounds ==
    [type |-> "out_of_range", what |-> "Matrix index out of bounds"]

\* throw std::invalid_argument("Matrix dimensions mismatch for multiplication")
DimensionsMismatch ==
    [type |-> "invalid_argument",
     what |-> "Matrix dimensions mismatch for multiplication"]

\* throw std::invalid_argument("Vectors must have same dimension for dot product")
VectorsMismatch ==
    [type |-> "invalid_argument",
     what |-> "Vectors must have same dimension for dot product"]

\* throw std::invalid_argument("Invalid dimensions for linear system")
InvalidSystem ==
    [type |-> "invalid_argument", what |-> "Invalid dimensions for linear system"]

(***************************************************************************)
(* Matrix<T> as a value: the fields rows and cols and the array data       *)
(* points to.                                                              *)
(***************************************************************************)
Mat(r, c, d) == [rows |-> r, cols |-> c, data |-> d]

get_rows(m) == m.rows

get_cols(m) == m.cols

\* a constructor that rejects only the 0 x 0 matrix (&& for ||)
CtorErrorBothZero(r, c) == IF r = 0 /\ c = 0 THEN InvalidDimensions ELSE NoError

\* Matrix(size_t r, size_t c): the error kind thrown, or NoError
CtorError(r, c) == IF r = 0 \/ c = 0 THEN InvalidDimensions ELSE NoError

\* Matrix(size_t r, size_t c): the object built when nothing is thrown
Ctor(r, c) == Mat(r, c, [k \in 1..(r * c) |-> Zero])

\* Matrix(const Matrix& other)
CopyCtor(other) == Mat(other.rows, other.cols,
                       [k \in 1..(other.rows * other.cols) |-> other.data[k]])

\* the bounds check of at(i, j)
AtError(m, i, j) == IF i >= m.rows \/ j >= m.cols THEN IndexOutOfBounds ELSE NoError

\* the storage index at(i, j) refers to
Index(m, i, j) == i * m.cols + j + 1

\* at(i, j) const: the element read (when the bounds check passes)
at(m, i, j) == m.data[Index(m, i, j)]

\* a write through a column-major index (j * rows + i)
SetAtColumnMajor(m, i, j, v) == [m EXCEPT !.data[j * m.rows + i + 1] = v]

\* at(i, j) = v: the matrix after the write (when the bounds check passes)
SetAt(m, i, j, v) == [m EXCEPT !.data[Index(m, i, j)] = v]

(***************************************************************************)
(* Matrix<T>::operator*                                                    *)
(***************************************************************************)
\* an inner loop that assigns the product to sum instead of adding it
RECURSIVE MulSumAssign(_, _, _, _, _, _)
MulSumAssign(a, b, i, j, k, sum) ==
    IF k >= a.cols THEN sum
    ELSE MulSumAssign(a, b, i, j, k + 1, RMul(at(a, i, k), at(b, k, j)))

\* the inner loop over k: sum += at(i, k) * other.at(k, j)
RECURSIVE MulSum(_, _, _, _, _, _)
MulSum(a, b, i, j, k, sum) ==
    IF k >= a.cols THEN sum
    ELSE MulSum(a, b, i, j, k + 1, RAdd(sum, RMul(at(a, i, k), at(b, k, j))))

\* a dimension check that throws std::out_of_range
MulErrorOutOfRange(a, b) ==
    IF a.cols # b.rows THEN IndexOutOfBounds ELSE CtorError(a.rows, b.cols)

\* the error kind operator* throws, or NoError: the dimension check, then
\* the construction of the result
MulError(a, b) ==
    IF a.cols # b.rows THEN DimensionsMismatch ELSE CtorError(a.rows, b.cols)

\* the matrix operator* returns when nothing is thrown
operator_mul(a, b) ==
    Mat(a.rows, b.cols,
        [n \in 1..(a.rows * b.cols) |->
            MulSum(a, b, (n - 1) \div b.cols, (n - 1) % b.cols, 0, Zero)])

(***************************************************************************)
(* Matrix<T>::reduced_row_echelon_form                                     *)
(***************************************************************************)
RowOf(m, n) == (n - 1) \div m.cols

ColOf(m, n) == (n - 1) % m.cols

\* a pivot search without the test of lead against cols after ++lead
RECURSIVE FindPivotPastLastColumn(_, _, _, _)
FindPivotPastLastColumn(t, r, i, lead) ==
    IF AtError(t, i, lead) # NoError THEN [status |-> "throw", i |-> i, lead |-> lead]
    ELSE IF at(t, i, lead) # Zero THEN [status |-> "found", i |-> i, lead |-> lead]
    ELSE IF i + 1 = t.rows
         THEN FindPivotPastLastColumn(t, r, r, lead + 1)
         ELSE FindPivotPastLastColumn(t, r, i + 1, lead)

\* the pivot search: while (temp.at(i, lead) == 0) { ... }
\* "found": the loop ended at (i, lead); "return": lead reached cols;
\* "throw": an access failed its bounds check
RECURSIVE FindPivot(_, _, _, _)
FindPivot(t, r, i, lead) ==
    IF AtError(t, i, lead) # NoError THEN [status |-> "throw", i |-> i, lead |-> lead]
    ELSE IF at(t, i, lead) # Zero THEN [status |-> "found", i |-> i, lead |-> lead]
    ELSE IF i + 1 = t.rows
         THEN IF lead + 1 = t.cols
              THEN [status |-> "return", i |-> r, lead |-> lead + 1]
              ELSE FindPivot(t, r, r, lead + 1)
         ELSE FindPivot(t, r, i + 1, lead)

\* if (i != r) swap rows i and r
SwapRows(t, i, r) ==
    IF i = r THEN t
    ELSE [t EXCEPT !.data = [n \in 1..Len(t.data) |->
            IF RowOf(t, n) = i THEN at(t, r, ColOf(t, n))
            ELSE IF RowOf(t, n) = r THEN at(t, i, ColOf(t, n))
            ELSE t.data[n]]]

\* a normalisation that multiplies the row by the pivot (*= for /=)
NormalizeRowTimes(t, r, lead) ==
    [t EXCEPT !.data = [n \in 1..Len(t.data) |->
        IF RowOf(t, n) = r THEN RMul(t.data[n], at(t, r, lead)) ELSE t.data[n]]]

\* div = temp.at(r, lead); every entry of row r /= div
NormalizeRow(t, r, lead) ==
    LET div == at(t, r, lead)
    IN  [t EXCEPT !.data = [n \in 1..Len(t.data) |->
            IF RowOf(t, n) = r THEN RDiv(t.data[n], div) ELSE t.data[n]]]

\* an elimination of the rows below the pivot row only (row-echelon form)
EliminateBelow(t, r, lead) ==
    [t EXCEPT !.data = [n \in 1..Len(t.data) |->
        IF RowOf(t, n) <= r THEN t.data[n]
        ELSE RSub(t.data[n],
                  RMul(at(t, r, ColOf(t, n)), at(t, RowOf(t, n), lead)))]]

\* for every row i != r: mult = temp.at(i, lead); row i -= row r * mult
EliminateColumn(t, r, lead) ==
    [t EXCEPT !.data = [n \in 1..Len(t.data) |->
        IF RowOf(t, n) = r THEN t.data[n]
        ELSE RSub(t.data[n],
                  RMul(at(t, r, ColOf(t, n)), at(t, RowOf(t, n), lead)))]]

\* the loop over the rows r, from row r with the column cursor at lead;
\* RrefRow is the body of the loop once the pivot search has ended with p
RECURSIVE RrefLoop(_, _, _)
RECURSIVE RrefRow(_, _, _)
RrefRow(t, r, p) ==
    IF p.status = "throw" THEN [err |-> IndexOutOfBounds, m |-> t]
    ELSE IF p.status = "return" THEN [err |-> NoError, m |-> t]
    ELSE RrefLoop(
            EliminateColumn(
                NormalizeRow(SwapRows(t, p.i, r), r, p.lead), r, p.lead),
            r + 1, p.lead + 1)

RrefLoop(t, r, lead) ==
    IF r >= t.rows THEN [err |-> NoError, m |-> t]
    ELSE IF lead >= t.cols THEN [err |-> NoError, m |-> t]
    ELSE RrefRow(t, r, FindPivot(t, r, r, lead))

\* reduced_row_echelon_form() const: works on the copy temp of *this
reduced_row_echelon_form(m) == RrefLoop(CopyCtor(m), 0, 0)

(***************************************************************************)
(* Vector<T>: a single-column Matrix<T> and the orientation flag.          *)
(***************************************************************************)
\* explicit Vector(size_t size)
VectorCtor(n) == [data |-> Ctor(n, 1), is_column |-> TRUE]

\* Vector::size()
size(v) == get_rows(v.data)

\* Vector::at(i) const: the element of the underlying column
VecAt(v, i) == at(v.data, i, 0)

\* Vector::dot: the dimension check
DotError(v, w) ==
    IF get_rows(v.data) # get_rows(w.data) THEN VectorsMismatch ELSE NoError

\* Vector::dot: result += data.at(i, 0) * other.data.at(i, 0), from i on
RECURSIVE DotSum(_, _, _, _)
DotSum(v, w, i, result) ==
    IF i >= get_rows(v.data) THEN result
    ELSE DotSum(v, w, i + 1,
                RAdd(result, RMul(at(v.data, i, 0), at(w.data, i, 0))))

dot(v, w) == DotSum(v, w, 0, Zero)

\* 2^n
RECURSIVE Pow2(_)
Pow2(n) == IF n = 0 THEN 1 ELSE 2 * Pow2(n - 1)

\* the largest k with k * k * d <= n, from k on
RECURSIVE FloorRoot(_, _, _)
FloorRoot(n, d, k) ==
    IF (k + 1) * (k + 1) * d <= n THEN FloorRoot(n, d, k + 1) ELSE k

\* std::sqrt: the square root rounded to the nearest representable value,
\* a multiple of 2^-SqrtBits; the root of a negative number is not a number
Sqrt(q) ==
    IF IsNaN(q) \/ q[1] < 0 THEN NaN
    ELSE LET S == Pow2(SqrtBits)
             n == q[1] * S * S
             k == FloorRoot(n, q[2], 0)
             up == (2 * k + 1) * (2 * k + 1) * q[2] <= 4 * n
         IN  Frac(IF up THEN k + 1 ELSE k, S)

\* a norm without the square root
NormWithoutRoot(v) == dot(v, v)

\* Vector::norm
norm(v) == Sqrt(dot(v, v))

(***************************************************************************)
(* linalg::solve_linear_system                                             *)
(***************************************************************************)
\* the augmented matrix [A | b]
Augmented(A, b) ==
    LET z == Ctor(get_rows(A), get_cols(A) + 1)
    IN  [z EXCEPT !.data = [n \in 1..Len(z.data) |->
            IF ColOf(z, n) < get_cols(A)
            THEN at(A, RowOf(z, n), ColOf(z, n))
            ELSE VecAt(b, RowOf(z, n))]]

\* a solver that reports a singular matrix: some row of the reduced form
\* of [A | b] has no leading 1 on the diagonal
SolveErrorRejectsSingular(A, b) ==
    IF get_rows(A) # get_cols(A) \/ get_rows(A) # size(b) THEN InvalidSystem
    ELSE IF \E R \in {reduced_row_echelon_form(Augmented(A, b)).m} :
                \E i \in 0..(get_rows(A) - 1) : at(R, i, i) # One
         THEN InvalidSystem
    ELSE NoError

\* the error kind solve_linear_system throws, or NoError
SolveError(A, b) ==
    IF get_rows(A) # get_cols(A) \/ get_rows(A) # size(b) THEN InvalidSystem
    ELSE IF CtorError(get_rows(A), get_cols(A) + 1) # NoError
         THEN CtorError(get_rows(A), get_cols(A) + 1)
    ELSE reduced_row_echelon_form(Augmented(A, b)).err

\* a solution read from the last column of A instead of the column of b
ExtractLastOfA(reduced, n, col) ==
    [VectorCtor(n) EXCEPT !.data.data = [k \in 1..n |-> at(reduced, k - 1, col - 1)]]

\* the solution vector: solution.at(i) = reduced.at(i, A.get_cols())
Extract(reduced, n, col) ==
    [VectorCtor(n) EXCEPT !.data.data = [k \in 1..n |-> at(reduced, k - 1, col)]]

\* the vector solve_linear_system returns when nothing is thrown
solve_linear_system(A, b) ==
    Extract(reduced_row_echelon_form(Augmented(A, b)).m, size(b), get_cols(A))

(***************************************************************************)
(* The objects of a program.                                               *)
(***************************************************************************)
MatIds == {1, 2, 3}

VecIds == {1, 2, 3}

\* the values a caller writes and the values inputs are drawn from
WriteVals == {Q(0), Q(1)}

Vals == {Q(-1), Q(0), Q(1), Q(2)}

BinVals == {Q(0), Q(1)}

NoObject == [alive |-> FALSE, rows |-> 0, cols |-> 0, ptr |-> 0]

NoVector == [alive |-> FALSE, rows |-> 0, cols |-> 0, ptr |-> 0, is_column |-> TRUE]

\* the array a unique_ptr refers to
Deref(h, ptr) == IF ptr = 0 THEN <<>> ELSE h[ptr]

\* the value of a Matrix object: its fields, with the array data points to
ValIn(h, o) == Mat(o.rows, o.cols, Deref(h, o.ptr))

Val(o) == ValIn(heap, o)

\* the value of a Vector object
VecVal(o) == [data |-> Val(o), is_column |-> o.is_column]

\* std::make_unique<T[]>: the address of the next array allocated
NewPtr == Len(heap) + 1

\* a Matrix object built by a constructor that allocated its array at ptr
Object(m, ptr) == [alive |-> TRUE, rows |-> m.rows, cols |-> m.cols, ptr |-> ptr]

\* a move constructor that reads rows and cols after resetting them
MoveCtorAfterReset(other) ==
    [alive |-> TRUE, rows |-> 0, cols |-> 0, ptr |-> other.ptr]

\* Matrix(Matrix&& other): the new object takes over other's array
MoveCtor(other) ==
    [alive |-> TRUE, rows |-> other.rows, cols |-> other.cols, ptr |-> other.ptr]

\* Matrix(Matrix&& other): what is left of other
MovedFrom(other) == [other EXCEPT !.ptr = 0, !.rows = 0, !.cols = 0]

Live == {id \in MatIds : mats[id].alive}

LiveVecs == {id \in VecIds : vecs[id].alive}

\* the name of the next object declared (0 when none is left)
FreshMat == IF Live = MatIds THEN 0
            ELSE CHOOSE id \in MatIds \ Live : \A o \in MatIds \ Live : id <= o

FreshVec == IF LiveVecs = VecIds THEN 0
            ELSE CHOOSE id \in VecIds \ LiveVecs : \A o \in VecIds \ LiveVecs : id <= o

\* the record of an operation: its name, the error thrown, the object it
\* built, its operands, the indices or dimensions passed and the scalar
\* written or returned
Op(op, err, dst, a, b, i, j, v) ==
    [op |-> op, err |-> err, dst |-> dst, a |-> a, b |-> b,
     i |-> i, j |-> j, v |-> v]

\* a declaration that allocates nothing when a live object already holds an
\* array with the elements of m, and lets the new object refer to that array
DeclareAliased(m) ==
    IF \E o \in Live : mats[o].ptr # 0 /\ heap[mats[o].ptr] = m.data
    THEN /\ mats' = [mats EXCEPT ![FreshMat] =
                Object(m, mats[CHOOSE o \in Live :
                                 mats[o].ptr # 0 /\ heap[mats[o].ptr] = m.data].ptr)]
         /\ heap' = heap
    ELSE /\ mats' = [mats EXCEPT ![FreshMat] = Object(m, NewPtr)]
         /\ heap' = Append(heap, m.data)

\* declare a Matrix whose constructor built the value m
Declare(m) ==
    /\ mats' = [mats EXCEPT ![FreshMat] = Object(m, NewPtr)]
    /\ heap' = Append(heap, m.data)

(***************************************************************************)
(* The operations on Matrix objects.                                       *)
(***************************************************************************)
\* Matrix<T> M(r, c);
Construct(r, c) ==
    /\ FreshMat # 0
    /\ IF CtorError(r, c) # NoError
       THEN /\ UNCHANGED <<mats, heap>>
            /\ last' = Op("construct", CtorError(r, c), 0, 0, 0, r, c, Zero)
       ELSE /\ Declare(Ctor(r, c))
            /\ last' = Op("construct", NoError, FreshMat, 0, 0, r, c, Zero)
    /\ UNCHANGED vecs

\* Matrix<T> M(other);
CopyConstruct(src) ==
    /\ FreshMat # 0
    /\ mats[src].alive
    /\ Declare(CopyCtor(Val(mats[src])))
    /\ last' = Op("copy", NoError, FreshMat, src, 0, 0, 0, Zero)
    /\ UNCHANGED vecs

\* Matrix<T> M(std::move(other));
MoveConstruct(src) ==
    /\ FreshMat # 0
    /\ mats[src].alive
    /\ mats' = [mats EXCEPT ![FreshMat] = MoveCtor(mats[src]),
                            ![src] = MovedFrom(mats[src])]
    /\ last' = Op("move", NoError, FreshMat, src, 0, 0, 0, Zero)
    /\ UNCHANGED <<heap, vecs>>

\* M.at(i, j) = v;
WriteAt(id, i, j, v) ==
    /\ mats[id].alive
    /\ IF AtError(Val(mats[id]), i, j) # NoError
       THEN /\ UNCHANGED heap
            /\ last' = Op("write", AtError(Val(mats[id]), i, j), 0, id, 0, i, j, v)
       ELSE /\ heap' = [heap EXCEPT ![mats[id].ptr] = SetAt(Val(mats[id]), i, j, v).data]
            /\ last' = Op("write", NoError, 0, id, 0, i, j, v)
    /\ UNCHANGED <<mats, vecs>>

\* ... = M.at(i, j);  (the accessor of a const Matrix)
ReadAt(id, i, j) ==
    /\ mats[id].alive
    /\ IF AtError(Val(mats[id]), i, j) # NoError
       THEN last' = Op("read", AtError(Val(mats[id]), i, j), 0, id, 0, i, j, Zero)
       ELSE last' = Op("read", NoError, 0, id, 0, i, j, at(Val(mats[id]), i, j))
    /\ UNCHANGED <<mats, heap, vecs>>

\* Matrix<T> M = A * B;
Multiply(a, b) ==
    /\ mats[a].alive /\ mats[b].alive
    /\ LET A == Val(mats[a])
           B == Val(mats[b])
       IN  IF MulError(A, B) # NoError
           THEN /\ UNCHANGED <<mats, heap>>
                /\ last' = Op("multiply", MulError(A, B), 0, a, b, 0, 0, Zero)
           ELSE /\ FreshMat # 0
                /\ Declare(operator_mul(A, B))
                /\ last' = Op("multiply", NoError, FreshMat, a, b, 0, 0, Zero)
    /\ UNCHANGED vecs

\* Matrix<T> M = A.reduced_row_echelon_form();
Reduce(a) ==
    /\ mats[a].alive
    /\ LET res == reduced_row_echelon_form(Val(mats[a]))
       IN  IF res.err # NoError
           THEN /\ UNCHANGED <<mats, heap>>
                /\ last' = Op("reduce", res.err, 0, a, 0, 0, 0, Zero)
           ELSE /\ FreshMat # 0
                /\ Declare(res.m)
                /\ last' = Op("reduce", NoError, FreshMat, a, 0, 0, 0, Zero)
    /\ UNCHANGED vecs

(***************************************************************************)
(* The life cycle of Matrix objects: a program that declares up to         *)
(* MaxObjects matrices and applies the operations of the class to them.    *)
(***************************************************************************)
Init ==
    /\ mats = [id \in MatIds |-> NoObject]
    /\ vecs = [id \in VecIds |-> NoVector]
    /\ heap = <<>>
    /\ last = Op("init", NoError, 0, 0, 0, 0, 0, Zero)

Room == Cardinality(Live) < MaxObjects

Next ==
    \/ \E r \in 0..MaxDim, c \in 0..MaxDim : Room /\ Construct(r, c)
    \/ \E src \in MatIds : Room /\ CopyConstruct(src)
    \/ \E src \in MatIds : Room /\ MoveConstruct(src)
    \/ \E id \in MatIds, i \in 0..MaxDim, j \in 0..MaxDim, v \in WriteVals :
          WriteAt(id, i, j, v)
    \/ \E id \in MatIds, i \in 0..MaxDim, j \in 0..MaxDim : ReadAt(id, i, j)
    \/ \E a \in MatIds, b \in MatIds :
          (Room \/ MulError(Val(mats[a]), Val(mats[b])) # NoError) /\ Multiply(a, b)
    \/ \E a \in MatIds : Room /\ Reduce(a)

Spec == Init /\ [][Next]_vars

(***************************************************************************)
(* Row reduction of drawn matrices: object 1 is a matrix of at most        *)
(* MaxCells elements drawn from Vals, or a square matrix of 0s and 1s, and *)
(* the program reduces the matrix it built last: object 2 is the reduced   *)
(* form of object 1 and object 3 the reduced form of object 2.             *)
(***************************************************************************)
\* the matrices of shape r x c with elements drawn from vs
Matrices(r, c, vs) == {Mat(r, c, d) : d \in [1..(r * c) -> vs]}

\* the column vectors of size n with elements drawn from vs
Vectors(n, vs) == {[data |-> m, is_column |-> TRUE] : m \in Matrices(n, 1, vs)}

\* a Vector object whose Matrix member allocated its array at ptr
VecObject(v, ptr) ==
    [alive |-> TRUE, rows |-> v.data.rows, cols |-> v.data.cols, ptr |-> ptr,
     is_column |-> v.is_column]

\* the state of a program that has built the matrices ms and then the
\* vectors vs, and nothing else
Holds(ms, vs) ==
    /\ mats = [id \in MatIds |->
                IF id <= Len(ms) THEN Object(ms[id], id) ELSE NoObject]
    /\ vecs = [id \in VecIds |->
                IF id <= Len(vs) THEN VecObject(vs[id], Len(ms) + id) ELSE NoVector]
    /\ heap = [k \in 1..(Len(ms) + Len(vs)) |->
                IF k <= Len(ms) THEN ms[k].data ELSE vs[k - Len(ms)].data.data]
    /\ last = Op("init", NoError, 0, 0, 0, 0, 0, Zero)

InitRref ==
    \/ \E r \in 1..MaxCells, c \in 1..MaxCells :
          /\ r * c <= MaxCells
          /\ \E m \in Matrices(r, c, Vals) : Holds(<<m>>, <<>>)
    \/ \E m \in Matrices(MaxBinaryOrder, MaxBinaryOrder, BinVals) : Holds(<<m>>, <<>>)

NextRref == \E a \in MatIds : a + 1 = FreshMat /\ Reduce(a)

SpecRref == InitRref /\ [][NextRref]_vars

(***************************************************************************)
(* Reduced row-echelon form, stated on a matrix value.                     *)
(***************************************************************************)
Rows(m) == 0..(m.rows - 1)

Cols(m) == 0..(m.cols - 1)

ZeroRow(m, i) == \A j \in Cols(m) : at(m, i, j) = Zero

\* the column of the leading (first nonzero) entry of a nonzero row i
LeadCol(m, i) ==
    CHOOSE j \in Cols(m) :
        /\ at(m, i, j) # Zero
        /\ \A k \in Cols(m) : k < j => at(m, i, k) = Zero

InReducedForm(m) ==
    /\ \A i \in Rows(m) : ~ZeroRow(m, i) =>
          /\ at(m, i, LeadCol(m, i)) = One
          /\ \A k \in Rows(m) : k # i => at(m, k, LeadCol(m, i)) = Zero
    /\ \A i \in Rows(m), k \in Rows(m) :
          (i < k /\ ~ZeroRow(m, i) /\ ~ZeroRow(m, k)) => LeadCol(m, i) < LeadCol(m, k)
    /\ \A i \in Rows(m), k \in Rows(m) :
          (ZeroRow(m, i) /\ ~ZeroRow(m, k)) => k < i

\* C1: reduced_row_echelon_form returns, for every matrix with rows >= 1 and
\* cols >= 1 over exact arithmetic, a matrix of the same shape that is in
\* reduced row-echelon form: leading entries are 1, the column of a leading
\* entry is 0 in every other row, leading columns strictly increase with the
\* row index and all-zero rows lie below every nonzero row.
C1_RrefIsReducedForm ==
    last.op = "reduce" =>
        /\ last.err = NoError
        /\ last.dst # 0
        /\ mats[last.dst].alive
        /\ get_rows(mats[last.dst]) = get_rows(mats[last.a])
        /\ get_cols(mats[last.dst]) = get_cols(mats[last.a])
        /\ Len(Val(mats[last.dst]).data) = mats[last.a].rows * mats[last.a].cols
        /\ InReducedForm(Val(mats[last.dst]))

\* a 3 x 2 matrix with a zero first column and no pivot in its first row has
\* been reduced: a column is skipped and rows are swapped
C1_Witness ==
    /\ last.op = "reduce"
    /\ last.a = 1
    /\ mats[1].rows = 3 /\ mats[1].cols = 2
    /\ Val(mats[1]).data = <<Q(0), Q(0), Q(0), Q(2), Q(0), Q(-1)>>
    /\ Val(mats[last.dst]).data = <<Q(0), Q(1), Q(0), Q(0), Q(0), Q(0)>>

\* C8: reduced_row_echelon_form is idempotent: reducing the reduced form of
\* a matrix returns it entry for entry, and a matrix already in reduced
\* row-echelon form is returned unchanged.
C8_RrefIdempotent ==
    last.op = "reduce" =>
        /\ (last.a = 2 => Val(mats[last.dst]) = Val(mats[2]))
        /\ (InReducedForm(Val(mats[last.a])) =>
                Val(mats[last.dst]) = Val(mats[last.a]))

\* the reduced form of a matrix that was not in reduced form has been
\* reduced again
C8_Witness ==
    /\ last.op = "reduce"
    /\ last.a = 2
    /\ last.dst = 3
    /\ Val(mats[1]) # Val(mats[2])
    /\ mats[1].rows = 2 /\ mats[1].cols = 3

\* the pivot searches of the reduction of t from row r with the column
\* cursor at lead, one record per iteration of the loop over the rows: the
\* row r, the cursor the search started at, the outcome p of the search and
\* the divisor div read at (r, p.lead) after the swap
RECURSIVE Searches(_, _, _)
RECURSIVE SearchesFrom(_, _, _, _)
SearchesFrom(t, r, lead, p) ==
    IF p.status # "found"
    THEN <<[r |-> r, lead |-> lead, p |-> p, div |-> Zero]>>
    ELSE <<[r |-> r, lead |-> lead, p |-> p,
            div |-> at(SwapRows(t, p.i, r), r, p.lead)]>>
         \o Searches(EliminateColumn(
                         NormalizeRow(SwapRows(t, p.i, r), r, p.lead), r, p.lead),
                     r + 1, p.lead + 1)

Searches(t, r, lead) ==
    IF r >= t.rows \/ lead >= t.cols THEN <<>>
    ELSE SearchesFrom(t, r, lead, FindPivot(t, r, r, lead))

\* C13: reduced_row_echelon_form returns normally for every matrix with
\* rows >= 1 and cols >= 1, the all-zero matrix and the matrices with more
\* rows than columns or more columns than rows included: no pivot search
\* fails a bounds check; a search that starts at (r, lead) ends either at a
\* nonzero entry (i, lead') with r <= i < rows and lead <= lead' < cols, or
\* with the cursor at cols, after which the function returns; the pivot row
\* is divided by that nonzero entry, never by zero, so no entry of the
\* result is the outcome of a division by zero; and a matrix is returned.
C13_RrefReturnsNormally ==
    (last.op = "reduce" /\ mats[last.a].rows >= 1 /\ mats[last.a].cols >= 1) =>
        /\ last.err = NoError
        /\ last.err.type # "out_of_range"
        /\ last.dst \in MatIds
        /\ mats[last.dst].alive
        /\ \E M \in {Val(mats[last.a])} : \E S \in {Searches(M, 0, 0)} :
              /\ Len(S) <= M.rows
              /\ \A k \in DOMAIN S :
                    /\ S[k].r = k - 1
                    /\ S[k].p.status \in {"found", "return"}
                    /\ S[k].p.status = "found" =>
                          /\ S[k].r <= S[k].p.i /\ S[k].p.i < M.rows
                          /\ S[k].lead <= S[k].p.lead /\ S[k].p.lead < M.cols
                          /\ AtError(M, S[k].p.i, S[k].p.lead) = NoError
                          /\ S[k].div # Zero
                          /\ ~IsNaN(S[k].div)
                    /\ S[k].p.status = "return" =>
                          /\ S[k].p.lead = M.cols
                          /\ k = Len(S)
        /\ \A n \in DOMAIN Val(mats[last.dst]).data :
              ~IsNaN(Val(mats[last.dst]).data[n])

\* the all-zero 2 x 3 matrix has been reduced: the search ran through every
\* column and the function returned the matrix
C13_Witness ==
    /\ last.op = "reduce"
    /\ last.err = NoError
    /\ last.a = 1
    /\ mats[1].rows = 2 /\ mats[1].cols = 3
    /\ Val(mats[1]).data = <<Zero, Zero, Zero, Zero, Zero, Zero>>
    /\ Val(mats[last.dst]).data = <<Zero, Zero, Zero, Zero, Zero, Zero>>

(***************************************************************************)
(* Linear systems: the program holds a drawn matrix A (object 1) and a     *)
(* drawn vector b (vector 1) and calls solve_linear_system(A, b).  Drawn   *)
(* are the matrices of up to MaxOrder rows and columns and the vectors of  *)
(* up to MaxOrder elements over Vals, the systems of order MaxBinaryOrder  *)
(* over 0 and 1, and the system of examples/matrix_operations.cpp.         *)
(***************************************************************************)
\* declare a Vector built with the value v
DeclareVec(v) ==
    /\ vecs' = [vecs EXCEPT ![FreshVec] = VecObject(v, NewPtr)]
    /\ heap' = Append(heap, v.data.data)

\* Vector<T> s = linalg::solve_linear_system(A, b);
Solve(a, b) ==
    /\ mats[a].alive /\ vecs[b].alive
    /\ LET A == Val(mats[a])
           B == VecVal(vecs[b])
       IN  IF SolveError(A, B) # NoError
           THEN /\ UNCHANGED <<vecs, heap>>
                /\ last' = Op("solve", SolveError(A, B), 0, a, b, 0, 0, Zero)
           ELSE /\ FreshVec # 0
                /\ DeclareVec(solve_linear_system(A, B))
                /\ last' = Op("solve", NoError, FreshVec, a, b, 0, 0, Zero)
    /\ UNCHANGED mats

\* the matrix and the right-hand side of examples/matrix_operations.cpp
ExampleA == Mat(2, 2, <<Q(3), Q(2), Q(1), Q(1)>>)

ExampleB == [data |-> Mat(2, 1, <<Q(7), Q(3)>>), is_column |-> TRUE]

InitSolve ==
    \/ \E r \in 1..MaxOrder, c \in 1..MaxOrder, n \in 1..MaxOrder :
          \E A \in Matrices(r, c, Vals), b \in Vectors(n, Vals) : Holds(<<A>>, <<b>>)
    \/ \E A \in Matrices(MaxBinaryOrder, MaxBinaryOrder, BinVals),
          b \in Vectors(MaxBinaryOrder, BinVals) : Holds(<<A>>, <<b>>)
    \/ Holds(<<ExampleA>>, <<ExampleB>>)

NextSolve == \E a \in MatIds, b \in VecIds : b + 1 = FreshVec /\ Solve(a, b)

SpecSolve == InitSolve /\ [][NextSolve]_vars

(***************************************************************************)
(* Invertibility and the product A x, stated on values.                    *)
(***************************************************************************)
\* the matrix m without its row 0 and its column j
Minor(m, j) ==
    Mat(m.rows - 1, m.cols - 1,
        [n \in 1..((m.rows - 1) * (m.cols - 1)) |->
            LET i == (n - 1) \div (m.cols - 1)
                k == (n - 1) % (m.cols - 1)
            IN  at(m, i + 1, IF k < j THEN k ELSE k + 1)])

\* the determinant of a square matrix, expanded along row 0
RECURSIVE Det(_)
RECURSIVE DetSum(_, _)
DetSum(m, j) ==
    IF j >= m.cols THEN Zero
    ELSE LET term == RMul(at(m, 0, j), Det(Minor(m, j)))
         IN  RAdd(IF j % 2 = 0 THEN term ELSE RSub(Zero, term), DetSum(m, j + 1))

Det(m) == IF m.rows = 1 THEN at(m, 0, 0) ELSE DetSum(m, 0)

Invertible(m) == m.rows = m.cols /\ m.rows >= 1 /\ Det(m) # Zero

\* entry i of the product of the matrix m and the column x
RECURSIVE RowTimes(_, _, _, _)
RowTimes(m, x, i, j) ==
    IF j = 0 THEN Zero
    ELSE RAdd(RowTimes(m, x, i, j - 1), RMul(at(m, i, j - 1), x[j]))

\* the product of the matrix m and the column x, as a sequence
MatVec(m, x) == [i \in 1..m.rows |-> RowTimes(m, x, i - 1, m.cols)]

\* C2: for every invertible square matrix A and vector x of size A.rows,
\* solve_linear_system(A, A x) returns exactly x: the returned s satisfies
\* A s = b, and every x with A x = b is s.  For A = [[3,2],[1,1]] and
\* b = (7,3) the result is (1,2).
C2_SolveRoundTrip ==
    (last.op = "solve" /\ Invertible(Val(mats[last.a]))
                       /\ mats[last.a].rows = vecs[last.b].rows) =>
        /\ last.err = NoError
        /\ vecs[last.dst].alive
        /\ MatVec(Val(mats[last.a]), Val(vecs[last.dst]).data) = Val(vecs[last.b]).data
        /\ \A x \in [1..mats[last.a].rows -> Vals] :
              MatVec(Val(mats[last.a]), x) = Val(vecs[last.b]).data
                  => Val(vecs[last.dst]).data = x
        /\ (Val(mats[last.a]) = ExampleA /\ VecVal(vecs[last.b]) = ExampleB)
              => Val(vecs[last.dst]).data = <<Q(1), Q(2)>>

\* the system of the example program has been solved
C2_Witness ==
    /\ last.op = "solve"
    /\ last.err = NoError
    /\ Val(mats[last.a]) = ExampleA
    /\ VecVal(vecs[last.b]) = ExampleB
    /\ Val(vecs[last.dst]).data = <<Q(1), Q(2)>>

\* the augmented matrix [A | b], stated entry by entry
AugmentedOf(A, b) ==
    Mat(A.rows, A.cols + 1,
        [n \in 1..(A.rows * (A.cols + 1)) |->
            LET i == (n - 1) \div (A.cols + 1)
                j == (n - 1) % (A.cols + 1)
            IN  IF j = A.cols THEN b[i + 1] ELSE A.data[i * A.cols + j + 1]])

\* C9: solve_linear_system(A, b) fails, with std::invalid_argument, if and
\* only if A is not square or A.rows # b.size(); in every other case, A
\* singular included, it returns a vector of size b.size() whose element i
\* is entry (i, A.cols) of the reduced form of [A | b], and throws nothing.
C9_SolveErrorsAndResult ==
    last.op = "solve" =>
        LET A == Val(mats[last.a])
            b == Val(vecs[last.b])
            bad == A.rows # A.cols \/ A.rows # b.rows
        IN  /\ bad => last.err.type = "invalid_argument" /\ last.dst = 0
            /\ ~bad =>
                  /\ last.err = NoError
                  /\ vecs[last.dst].alive
                  /\ size(VecVal(vecs[last.dst])) = size(VecVal(vecs[last.b]))
                  /\ Len(Val(vecs[last.dst]).data) = b.rows
                  /\ \E R \in {reduced_row_echelon_form(AugmentedOf(A, b.data)).m} :
                        \A i \in 0..(b.rows - 1) :
                            VecAt(VecVal(vecs[last.dst]), i) = at(R, i, A.cols)

\* a singular system has been solved without an error
C9_Witness ==
    /\ last.op = "solve"
    /\ last.err = NoError
    /\ mats[last.a].rows = 2
    /\ ~Invertible(Val(mats[last.a]))
    /\ Val(mats[last.a]).data = <<Q(1), Q(1), Q(1), Q(1)>>
    /\ Val(vecs[last.b]).data = <<Q(1), Q(2)>>
    /\ Val(vecs[last.dst]).data = <<Q(0), Q(1)>>

(***************************************************************************)
(* Products of drawn matrices: the program holds two drawn matrices of up  *)
(* to MaxDim rows and columns over Vals, or the two matrices of the test   *)
(* MatrixMultiplication, and multiplies the first by the second.           *)
(***************************************************************************)
\* the operands of TEST_F(MatrixTest, MatrixMultiplication)
TestA == Mat(2, 2, <<Q(1), Q(2), Q(3), Q(4)>>)

TestB == Mat(2, 2, <<Q(5), Q(6), Q(7), Q(8)>>)

InitMul ==
    \/ \E m \in 1..MaxDim, n \in 1..MaxDim, k \in 1..MaxDim, p \in 1..MaxDim :
          \E A \in Matrices(m, n, Vals), B \in Matrices(k, p, Vals) :
              Holds(<<A, B>>, <<>>)
    \/ Holds(<<TestA, TestB>>, <<>>)

NextMul == \E a \in MatIds, b \in MatIds : a < b /\ Live = {1, 2} /\ Multiply(a, b)

SpecMul == InitMul /\ [][NextMul]_vars

\* the sum of A(i,k) * B(k,j) over the n values k < n
RECURSIVE EntrySum(_, _, _, _, _)
EntrySum(A, B, i, j, n) ==
    IF n = 0 THEN Zero
    ELSE RAdd(RMul(A.data[i * A.cols + n], B.data[(n - 1) * B.cols + j + 1]),
              EntrySum(A, B, i, j, n - 1))

\* C3: for all matrices A (m x n) and B (n x p), A * B returns a matrix of
\* shape (m, p) whose entry (i, j) is the sum over k < n of A(i,k) * B(k,j);
\* [[1,2],[3,4]] * [[5,6],[7,8]] = [[19,22],[43,50]].
C3_ProductEntries ==
    (last.op = "multiply" /\ mats[last.a].cols = mats[last.b].rows) =>
        LET A == Val(mats[last.a])
            B == Val(mats[last.b])
        IN  /\ last.err = NoError
            /\ mats[last.dst].alive
            /\ \E C \in {Val(mats[last.dst])} :
                  /\ get_rows(C) = A.rows
                  /\ get_cols(C) = B.cols
                  /\ Len(C.data) = A.rows * B.cols
                  /\ \A i \in 0..(A.rows - 1), j \in 0..(B.cols - 1) :
                        /\ AtError(C, i, j) = NoError
                        /\ at(C, i, j) = EntrySum(A, B, i, j, A.cols)
                  /\ (A = TestA /\ B = TestB) =>
                        C.data = <<Q(19), Q(22), Q(43), Q(50)>>

\* the product of the test has been computed
C3_Witness ==
    /\ last.op = "multiply"
    /\ last.err = NoError
    /\ Val(mats[last.a]) = TestA
    /\ Val(mats[last.b]) = TestB
    /\ Val(mats[last.dst]).data = <<Q(19), Q(22), Q(43), Q(50)>>

(***************************************************************************)
(* Dot product and norm: the program holds one drawn vector of up to       *)
(* MaxVecSize elements and calls dot and norm on it.                       *)
(***************************************************************************)
VecVals == {Q(-2), Q(-1), Q(0), <<1, 2>>, Q(1), Q(2), Q(3), Q(4)}

\* ... = v.dot(w);
Dot(a, b) ==
    /\ vecs[a].alive /\ vecs[b].alive
    /\ IF DotError(VecVal(vecs[a]), VecVal(vecs[b])) # NoError
       THEN last' = Op("dot", DotError(VecVal(vecs[a]), VecVal(vecs[b])),
                       0, a, b, 0, 0, Zero)
       ELSE last' = Op("dot", NoError, 0, a, b, 0, 0,
                       dot(VecVal(vecs[a]), VecVal(vecs[b])))
    /\ UNCHANGED <<mats, vecs, heap>>

\* ... = v.norm();
Norm(a) ==
    /\ vecs[a].alive
    /\ last' = Op("norm", NoError, 0, a, 0, 0, 0, norm(VecVal(vecs[a])))
    /\ UNCHANGED <<mats, vecs, heap>>

InitVec == \E n \in 1..MaxVecSize : \E v \in Vectors(n, VecVals) : Holds(<<>>, <<v>>)

NextVec ==
    \/ \E a \in VecIds, b \in VecIds : Dot(a, b)
    \/ \E a \in VecIds : Norm(a)

SpecVec == InitVec /\ [][NextVec]_vars

\* the sum of the squares of the first n elements of the sequence d
RECURSIVE SumSquares(_, _)
SumSquares(d, n) ==
    IF n = 0 THEN Zero ELSE RAdd(SumSquares(d, n - 1), RMul(d[n], d[n]))

IsInteger(q) == q[2] = 1

\* half the distance between two neighbouring values std::sqrt can return
HalfStep == Frac(1, 2 * Pow2(SqrtBits))

C4_Construction ==
    [][last'.op = "construct" =>
         IF last'.i > 0 /\ last'.j > 0
         THEN /\ last'.err = NoError
              /\ last'.dst \in MatIds
              /\ ~mats[last'.dst].alive
              /\ mats'[last'.dst].alive
              /\ \A id \in MatIds \ {last'.dst} : mats'[id] = mats[id]
              /\ get_rows(mats'[last'.dst]) = last'.i
              /\ get_cols(mats'[last'.dst]) = last'.j
              /\ \E M \in {ValIn(heap', mats'[last'.dst])} :
                    /\ Len(M.data) = last'.i * last'.j
                    /\ \A i \in 0..(last'.i - 1), j \in 0..(last'.j - 1) :
                          AtError(M, i, j) = NoError /\ at(M, i, j) = Zero
         ELSE /\ last'.err = InvalidDimensions
              /\ last'.err.type = "invalid_argument"
              /\ last'.dst = 0
              /\ mats' = mats
              /\ heap' = heap]_vars

\* a 2 x 2 matrix has been constructed
C4_Witness ==
    /\ last.op = "construct"
    /\ last.err = NoError
    /\ last.i = 2 /\ last.j = 2
    /\ mats[last.dst].rows = 2 /\ mats[last.dst].cols = 2
    /\ Val(mats[last.dst]).data = <<Zero, Zero, Zero, Zero>>

Positive(o) == o.rows > 0 /\ o.cols > 0

C6_BoundsAndAliasing ==
    [][last'.op \in {"read", "write"} =>
         LET o == mats[last'.a]
             i == last'.i
             j == last'.j
         IN  /\ mats' = mats
             /\ last'.err \in {NoError, IndexOutOfBounds}
             /\ last'.err = IndexOutOfBounds <=> (i >= o.rows \/ j >= o.cols)
             /\ last'.err.type = "out_of_range" <=> last'.err # NoError
             /\ DOMAIN heap' = DOMAIN heap
             /\ \A p \in DOMAIN heap : p # o.ptr => heap'[p] = heap[p]
             /\ last'.err # NoError => heap' = heap
             /\ (last'.op = "read" /\ last'.err = NoError) =>
                   /\ heap' = heap
                   /\ last'.v = heap[o.ptr][i * o.cols + j + 1]
             /\ (last'.op = "write" /\ last'.err = NoError) =>
                   /\ at(ValIn(heap', o), i, j) = last'.v
                   /\ heap'[o.ptr][i * o.cols + j + 1] = last'.v
                   /\ \A n \in DOMAIN heap[o.ptr] :
                         n # i * o.cols + j + 1 => heap'[o.ptr][n] = heap[o.ptr][n]
                   /\ DOMAIN heap'[o.ptr] = DOMAIN heap[o.ptr]]_vars

\* the last entry (rows-1, cols-1) of a 2 x 2 matrix in which (0, 1) holds 1
\* has been read, and is still zero
C6_Witness ==
    /\ last.op = "read"
    /\ last.err = NoError
    /\ mats[last.a].rows = 2 /\ mats[last.a].cols = 2
    /\ last.i = 1 /\ last.j = 1
    /\ Val(mats[last.a]).data = <<Q(0), Q(1), Q(0), Q(0)>>
    /\ last.v = Zero

\* C7 as stated: A * B with A.cols # B.rows fails with an error of a kind
\* distinct from the kind of the constructor's invalid-dimension error and
\* from the out-of-range error, and returns no matrix.
C7_Original ==
    (last.op = "multiply" /\ mats[last.a].cols # mats[last.b].rows) =>
        /\ last.err # NoError
        /\ last.err.type # InvalidDimensions.type
        /\ last.err.type # IndexOutOfBounds.type
        /\ last.dst = 0

\* C7 as amended: A * B with A.cols # B.rows fails with std::invalid_argument,
\* the type of the constructor's invalid-dimension error, from which only
\* the message tells it apart; the type is distinct from std::out_of_range,
\* and no matrix is returned.
C7_MismatchIsInvalidArgument ==
    [][(last'.op = "multiply" /\ mats[last'.a].cols # mats[last'.b].rows) =>
          /\ last'.err = DimensionsMismatch
          /\ last'.err.type = "invalid_argument"
          /\ last'.err.type = InvalidDimensions.type
          /\ last'.err.what # InvalidDimensions.what
          /\ last'.err.type # IndexOutOfBounds.type
          /\ last'.dst = 0
          /\ mats' = mats
          /\ heap' = heap]_vars

\* a 2 x 1 matrix has been multiplied by a 2 x 2 matrix
C7_Witness ==
    /\ last.op = "multiply"
    /\ last.a # last.b
    /\ mats[last.a].rows = 2 /\ mats[last.a].cols = 1
    /\ mats[last.b].rows = 2 /\ mats[last.b].cols = 2
    /\ last.err = DimensionsMismatch

\* C12: reduced_row_echelon_form, operator* (whether it succeeds or throws)
\* and the copy constructor leave every object that existed before the call,
\* the receiver, the operands and the original included, with the dimensions
\* and the entries it had; the matrix they return is a new object whose array
\* no other object refers to; and a later write through at changes the
\* entries of the object written only, so it is visible in no other object.
C12_OperandsUnchanged ==
    [][/\ last'.op \in {"reduce", "multiply", "copy"} =>
             /\ \A id \in MatIds : mats[id].alive =>
                   /\ mats'[id] = mats[id]
                   /\ ValIn(heap', mats'[id]) = ValIn(heap, mats[id])
             /\ last'.err # NoError => mats' = mats /\ heap' = heap
             /\ last'.err = NoError =>
                   /\ last'.dst \in MatIds
                   /\ ~mats[last'.dst].alive
                   /\ mats'[last'.dst].alive
                   /\ mats'[last'.dst].ptr \in DOMAIN heap'
                   /\ \A id \in MatIds \ {last'.dst} :
                         mats'[id].alive => mats'[id].ptr # mats'[last'.dst].ptr
             /\ (last'.op = "copy" /\ last'.err = NoError) =>
                   ValIn(heap', mats'[last'.dst]) = ValIn(heap, mats[last'.a])
       /\ last'.op = "write" =>
             /\ mats' = mats
             /\ \A id \in MatIds \ {last'.a} : mats[id].alive =>
                   ValIn(heap', mats'[id]) = ValIn(heap, mats[id])
       /\ \A a \in MatIds, b \in MatIds :
             (a # b /\ mats'[a].alive /\ mats'[b].alive /\ mats'[a].ptr # 0) =>
                 mats'[a].ptr # mats'[b].ptr]_vars

\* the matrix [[1,1],[0,1]] has been reduced: the result is the identity and
\* the receiver still holds its entries
C12_Witness ==
    /\ last.op = "reduce"
    /\ last.err = NoError
    /\ mats[last.a].rows = 2 /\ mats[last.a].cols = 2
    /\ Val(mats[last.a]).data = <<Q(1), Q(1), Q(0), Q(1)>>
    /\ Val(mats[last.dst]).data = <<Q(1), Q(0), Q(0), Q(1)>>
    /\ mats[last.a].ptr # mats[last.dst].ptr

(***************************************************************************)
(* linalg::rotation_z.  An angle is named by its measure in degrees; the   *)
(* angles drawn are the multiples of 30 and of 45 degrees, whose cosines   *)
(* are square roots of rationals.  std::cos and std::sin return the        *)
(* cosine and the sine rounded as std::sqrt rounds, so that c * c + s * s  *)
(* is 1 for some angles and not for others.                                *)
(***************************************************************************)
Angles == {d \in (-90)..360 : d % 30 = 0 \/ d % 45 = 0}

\* unary minus
RNeg(q) == IF IsNaN(q) THEN NaN ELSE <<0 - q[1], q[2]>>

\* the square of the cosine of an angle of d degrees
CosSquared(d) ==
    LET r == d % 180
        f == IF r > 90 THEN 180 - r ELSE r
    IN  IF f = 0 THEN Frac(1, 1)
        ELSE IF f = 30 THEN Frac(3, 4)
        ELSE IF f = 45 THEN Frac(1, 2)
        ELSE IF f = 60 THEN Frac(1, 4)
        ELSE Frac(0, 1)

\* std::cos
Cos(d) ==
    LET r == d % 360
    IN  IF r > 90 /\ r < 270 THEN RNeg(Sqrt(CosSquared(d))) ELSE Sqrt(CosSquared(d))

\* std::sin
Sin(d) == Cos(d - 90)

\* a rotation in the other direction: the signs of the two sines exchanged
RotationZClockwise(angle) ==
    LET rot == Ctor(3, 3)
        w1 == SetAt(rot, 0, 0, Cos(angle))
        w2 == SetAt(w1, 0, 1, Sin(angle))
        w3 == SetAt(w2, 1, 0, RNeg(Sin(angle)))
        w4 == SetAt(w3, 1, 1, Cos(angle))
    IN  SetAt(w4, 2, 2, One)

\* Matrix<double> rot(3, 3); the five writes through at; return rot
rotation_z(angle) ==
    LET rot == Ctor(3, 3)
        w1 == SetAt(rot, 0, 0, Cos(angle))
        w2 == SetAt(w1, 0, 1, RNeg(Sin(angle)))
        w3 == SetAt(w2, 1, 0, Sin(angle))
        w4 == SetAt(w3, 1, 1, Cos(angle))
    IN  SetAt(w4, 2, 2, One)

\* Matrix<double> rot = linalg::rotation_z(angle);
RotationZ(angle) ==
    /\ FreshMat # 0
    /\ Declare(rotation_z(angle))
    /\ last' = Op("rotation_z", NoError, FreshMat, 0, 0, angle, 0, Zero)
    /\ UNCHANGED vecs

(***************************************************************************)
(* Rotations of drawn points: the program holds a 3 x 1 column drawn from  *)
(* Vals (object 1), builds rotation_z of a drawn angle (object 2) and      *)
(* multiplies the rotation by the column (object 3), as the test           *)
(* LinearTransformations and examples/linear_transformations.cpp do.       *)
(***************************************************************************)
InitRot == \E v \in Matrices(3, 1, Vals) : Holds(<<v>>, <<>>)

NextRot ==
    \/ \E angle \in Angles : Live = {1} /\ RotationZ(angle)
    \/ Live = {1, 2} /\ Multiply(2, 1)

SpecRot == InitRot /\ [][NextRot]_vars

\* x * x + y * y + z * z for the column <<x, y, z>>
SquaredNorm(d) == RAdd(RAdd(RMul(d[1], d[1]), RMul(d[2], d[2])), RMul(d[3], d[3]))

====
